---- MODULE Spec2Model ----
(***************************************************************************)
(* Model of the lock-free ring buffer of middlewares/ringbuff (v1.3.1)     *)
(* as used by the STM32H7 dual-core asynchronous communication example.    *)
(*                                                                         *)
(* Spec     : every API call runs to completion (one action per call).     *)
(* SpecWR   : one producer in ringbuff_write and one consumer in           *)
(*            ringbuff_read, interleaved at the granularity of index loads,*)
(*            index stores and single byte copies.                         *)
(* SpecConc : SpecWR plus ringbuff_advance / ringbuff_skip and the linear  *)
(*            block length queries, same granularity.                      *)
(***************************************************************************)
EXTENDS Integers, Naturals, Sequences, FiniteSets, TLC

(* ---------------------------- bounds ----------------------------------- *)
MaxSize == 3      \* largest region size N handed to ringbuff_init
MaxLen == 2       \* largest length argument of a call
MaxTotal == 5     \* calls start while fewer bytes than this were published / released (SpecWR, SpecConc)

NULL == "NULL"
REGION == "REGION"
PTR == "PTR"
EVT_FN == "evt_fn"
EVT_FN2 == "evt_fn2"

Byte == {0, 1}    \* the byte values completed calls store (the code never looks at them)
Cells == 0..(MaxSize - 1)

VARIABLES
    buff,       \* ringbuff_t.buff   : NULL or the bound region
    size,       \* ringbuff_t.size
    w,          \* ringbuff_t.w      : next write position
    r,          \* ringbuff_t.r      : next read position
    evt_fn,     \* ringbuff_t.evt_fn : NULL or the installed callback
    mem,        \* the bytes of the region handed to ringbuff_init
    fifo,       \* ghost: bytes accepted and not yet consumed, oldest first
    count,      \* ghost: accepted minus consumed since the last init / reset
    last,       \* record of the last completed call (arguments, result, state before)
    pcP,        \* producer position inside its current call
    pcC,        \* consumer position inside its current call
    lp,         \* producer locals
    lc,         \* consumer locals
    written,    \* ghost: all bytes accepted by ringbuff_write so far
    readout,    \* ghost: all bytes the consumer took out so far (read, or sent to the UART)
    released,   \* ghost: bytes released by stores to r
    published   \* ghost: bytes published by stores to w

vars == <<buff, size, w, r, evt_fn, mem, fifo, count, last,
          pcP, pcC, lp, lc, written, readout, released, published>>

concVars == <<pcP, pcC, lp, lc, written, readout, released, published>>

(* ------------------------- the structure ------------------------------- *)
\* the fields of ringbuff_t in the current state
B == [buff |-> buff, size |-> size, w |-> w, r |-> r, evt_fn |-> evt_fn]

BUF_IS_VALID(b) == b.buff # NULL /\ b.size > 0

BUF_MIN(x, y) == IF x < y THEN x ELSE y

\* faulty variant: the callback is invoked twice
BUF_SEND_EVT_mut(b, type, bp) ==
    IF b.evt_fn # NULL THEN << <<type, bp>>, <<type, bp>> >> ELSE << >>

\* BUF_SEND_EVT: the events one call hands to the callback
BUF_SEND_EVT(b, type, bp) ==
    IF b.evt_fn # NULL THEN << <<type, bp>> >> ELSE << >>

\* faulty variant: nothing is copied into the region
BUF_MEMCPY_mut(m, dst, d, off, n) == m

\* BUF_SEND_EVT hands the callback the buffer itself as first argument: the
\* structure, as it is at that point of the call, that each invocation sees
BUF_SEND_SEEN(b) ==
    IF b.evt_fn # NULL THEN << b >> ELSE << >>

\* memcpy(&m[dst], &d[off], n): d is a 1-based sequence, off a 0-based offset
BUF_MEMCPY(m, dst, d, off, n) ==
    [c \in DOMAIN m |->
        IF c >= dst /\ c < dst + n /\ (c - dst) + off + 1 \in DOMAIN d
        THEN d[(c - dst) + off + 1] ELSE m[c]]

\* memcpy(&out[..], &m[src], n) seen as the n bytes it delivers
MemRead(m, src, n) ==
    [i \in 1..n |-> IF src + i - 1 \in DOMAIN m THEN m[src + i - 1] ELSE 0]

\* faulty variant: the first chunk is not clamped to the physical end
LinearPart_mut(sz, pos, n) == n

\* tocopy = BUF_MIN(buff->size - pos, n): the part that fits before the physical end
LinearPart(sz, pos, n) == BUF_MIN(sz - pos, n)

\* faulty variant: '>' for '>=' in the end check
CheckEnd_mut(sz, pos) == IF pos > sz THEN 0 ELSE pos

\* step 3 of write / read: if (pos >= buff->size) pos = 0
CheckEnd(sz, pos) == IF pos >= sz THEN 0 ELSE pos

\* faulty variant: '>' for '>=' in the overflow check
SubtractOverflow_mut(sz, pos) == IF pos > sz THEN pos - sz ELSE pos

\* skip / advance / peek: if (pos >= buff->size) pos -= buff->size
SubtractOverflow(sz, pos) == IF pos >= sz THEN pos - sz ELSE pos

ringbuff_is_ready(b) == BUF_IS_VALID(b)

\* faulty variant: the sentinel byte is not subtracted
ringbuff_get_free_mut(b) ==
    IF ~BUF_IS_VALID(b) THEN 0
    ELSE LET sz == IF b.w = b.r THEN b.size
                   ELSE IF b.r > b.w THEN b.r - b.w
                   ELSE b.size - (b.w - b.r)
         IN sz

ringbuff_get_free(b) ==
    IF ~BUF_IS_VALID(b) THEN 0
    ELSE LET sz == IF b.w = b.r THEN b.size
                   ELSE IF b.r > b.w THEN b.r - b.w
                   ELSE b.size - (b.w - b.r)
         IN sz - 1

\* faulty variant: off by one when the write index is behind the read index
ringbuff_get_full_mut(b) ==
    IF ~BUF_IS_VALID(b) THEN 0
    ELSE IF b.w = b.r THEN 0
    ELSE IF b.w > b.r THEN b.w - b.r
    ELSE b.size - (b.r - b.w) - 1

ringbuff_get_full(b) ==
    IF ~BUF_IS_VALID(b) THEN 0
    ELSE IF b.w = b.r THEN 0
    ELSE IF b.w > b.r THEN b.w - b.r
    ELSE b.size - (b.r - b.w)

ringbuff_get_linear_block_read_address(b) ==
    IF ~BUF_IS_VALID(b) THEN NULL ELSE b.r

\* faulty variant: the used space is returned also when it wraps
ringbuff_get_linear_block_read_length_mut(b) ==
    IF ~BUF_IS_VALID(b) THEN 0
    ELSE IF b.w > b.r THEN b.w - b.r
    ELSE IF b.r > b.w THEN b.size - b.r + b.w
    ELSE 0

ringbuff_get_linear_block_read_length(b) ==
    IF ~BUF_IS_VALID(b) THEN 0
    ELSE IF b.w > b.r THEN b.w - b.r
    ELSE IF b.r > b.w THEN b.size - b.r
    ELSE 0

ringbuff_get_linear_block_write_address(b) ==
    IF ~BUF_IS_VALID(b) THEN NULL ELSE b.w

\* faulty variant: the length is not shortened when the read index is 0
ringbuff_get_linear_block_write_length_mut(b) ==
    IF ~BUF_IS_VALID(b) THEN 0
    ELSE IF b.w >= b.r THEN b.size - b.w
         ELSE b.r - b.w - 1

\* faulty variant: the length is shortened by one whatever the read index is
ringbuff_get_linear_block_write_length_short_mut(b) ==
    IF ~BUF_IS_VALID(b) THEN 0
    ELSE IF b.w >= b.r THEN b.size - b.w - 1
         ELSE b.r - b.w - 1

ringbuff_get_linear_block_write_length(b) ==
    IF ~BUF_IS_VALID(b) THEN 0
    ELSE IF b.w >= b.r
         THEN LET len == b.size - b.w
              IN IF b.r = 0 THEN len - 1 ELSE len
         ELSE b.r - b.w - 1

(* --------------------- calls that run to completion -------------------- *)
\* result of a call that returns 0 / nothing and touches nothing
Ret0(b, m) ==
    [b |-> b, mem |-> m, ret |-> 0, out |-> << >>, evts |-> << >>, seen |-> << >>,
     stores |-> {}]

\* faulty variant: the structure is not zeroed, the indices keep their values
ringbuff_init_keep_mut(b, m, buffdata, sz) ==
    IF buffdata = NULL \/ sz = 0 THEN Ret0(b, m)
    ELSE [b |-> [b EXCEPT !.buff = buffdata, !.size = sz],
          mem |-> m, ret |-> 1, out |-> << >>, evts |-> << >>, seen |-> << >>,
          stores |-> {"buff", "size"}]

\* faulty variant: a rejected call detaches the region
ringbuff_init_mut(b, m, buffdata, sz) ==
    IF buffdata = NULL \/ sz = 0
    THEN [Ret0(b, m) EXCEPT !.b = [b EXCEPT !.buff = NULL], !.stores = {"buff"}]
    ELSE [b |-> [buff |-> buffdata, size |-> sz, w |-> 0, r |-> 0, evt_fn |-> NULL],
          mem |-> m, ret |-> 1, out |-> << >>, evts |-> << >>, seen |-> << >>,
          stores |-> {"buff", "size", "w", "r", "evt_fn"}]

ringbuff_init(b, m, buffdata, sz) ==
    IF buffdata = NULL \/ sz = 0 THEN Ret0(b, m)
    ELSE [b |-> [buff |-> buffdata, size |-> sz, w |-> 0, r |-> 0, evt_fn |-> NULL],
          mem |-> m, ret |-> 1, out |-> << >>, evts |-> << >>, seen |-> << >>,
          stores |-> {"buff", "size", "w", "r", "evt_fn"}]

\* faulty variant: the capacity and the indices are cleared with the region
ringbuff_free_mut(b, m) ==
    IF BUF_IS_VALID(b)
    THEN [Ret0(b, m) EXCEPT !.b = [b EXCEPT !.buff = NULL, !.size = 0, !.w = 0, !.r = 0],
                            !.stores = {"buff", "size", "w", "r"}]
    ELSE Ret0(b, m)

ringbuff_free(b, m) ==
    IF BUF_IS_VALID(b)
    THEN [Ret0(b, m) EXCEPT !.b = [b EXCEPT !.buff = NULL], !.stores = {"buff"}]
    ELSE Ret0(b, m)

ringbuff_set_evt_fn(b, m, fn) ==
    IF BUF_IS_VALID(b)
    THEN [Ret0(b, m) EXCEPT !.b = [b EXCEPT !.evt_fn = fn], !.stores = {"evt_fn"}]
    ELSE Ret0(b, m)

ringbuff_write(b, m, data, d, btw0) ==
    IF ~BUF_IS_VALID(b) \/ data = NULL \/ btw0 = 0 THEN Ret0(b, m)
    ELSE
    LET free == ringbuff_get_free(b)
        btw1 == BUF_MIN(free, btw0)
    IN IF btw1 = 0 THEN Ret0(b, m)
       ELSE
       LET tocopy == LinearPart(b.size, b.w, btw1)                \* step 1
           m1 == BUF_MEMCPY(m, b.w, d, 0, tocopy)
           w1 == b.w + tocopy
           btw2 == btw1 - tocopy
           m2 == IF btw2 > 0 THEN BUF_MEMCPY(m1, 0, d, tocopy, btw2) ELSE m1   \* step 2
           w2 == IF btw2 > 0 THEN btw2 ELSE w1
           w3 == CheckEnd(b.size, w2)                 \* step 3
       IN [b |-> [b EXCEPT !.w = w3], mem |-> m2, ret |-> tocopy + btw2,
           out |-> << >>, evts |-> BUF_SEND_EVT(b, "WRITE", tocopy + btw2),
           seen |-> BUF_SEND_SEEN([b EXCEPT !.w = w3]),
           stores |-> {"w"}]

ringbuff_read(b, m, data, btr0) ==
    IF ~BUF_IS_VALID(b) \/ data = NULL \/ btr0 = 0 THEN Ret0(b, m)
    ELSE
    LET full == ringbuff_get_full(b)
        btr1 == BUF_MIN(full, btr0)
    IN IF btr1 = 0 THEN Ret0(b, m)
       ELSE
       LET tocopy == LinearPart(b.size, b.r, btr1)                \* step 1
           o1 == MemRead(m, b.r, tocopy)
           r1 == b.r + tocopy
           btr2 == btr1 - tocopy
           o2 == IF btr2 > 0 THEN o1 \o MemRead(m, 0, btr2) ELSE o1   \* step 2
           r2 == IF btr2 > 0 THEN btr2 ELSE r1
           r3 == CheckEnd(b.size, r2)                 \* step 3
       IN [b |-> [b EXCEPT !.r = r3], mem |-> m, ret |-> tocopy + btr2,
           out |-> o2, evts |-> BUF_SEND_EVT(b, "READ", tocopy + btr2),
           seen |-> BUF_SEND_SEEN([b EXCEPT !.r = r3]),
           stores |-> {"r"}]

\* faulty variant: the copy starts at the read index whatever skip_count is
ringbuff_peek_noskip_mut(b, m, skip_count, data, btp0) ==
    IF ~BUF_IS_VALID(b) \/ data = NULL \/ btp0 = 0 THEN Ret0(b, m)
    ELSE
    LET full0 == ringbuff_get_full(b)
    IN IF skip_count >= full0 THEN Ret0(b, m)
       ELSE
       LET btp1 == BUF_MIN(full0 - skip_count, btp0)
           tocopy == LinearPart(b.size, b.r, btp1)
           o1 == MemRead(m, b.r, tocopy)
           btp2 == btp1 - tocopy
           o2 == IF btp2 > 0 THEN o1 \o MemRead(m, 0, btp2) ELSE o1
       IN [Ret0(b, m) EXCEPT !.ret = tocopy + btp2, !.out = o2]

\* faulty variant: the bytes handed out are also released, as ringbuff_read does
ringbuff_peek_mut(b, m, skip_count, data, btp0) ==
    IF skip_count = 0 THEN [ringbuff_read(b, m, data, btp0) EXCEPT !.evts = << >>, !.seen = << >>]
    ELSE Ret0(b, m)

ringbuff_peek(b, m, skip_count, data, btp0) ==
    IF ~BUF_IS_VALID(b) \/ data = NULL \/ btp0 = 0 THEN Ret0(b, m)
    ELSE
    LET full0 == ringbuff_get_full(b)
    IN IF skip_count >= full0 THEN Ret0(b, m)
       ELSE
       LET r0 == b.r + skip_count
           full1 == full0 - skip_count
           r1 == SubtractOverflow(b.size, r0)
           btp1 == BUF_MIN(full1, btp0)
       IN IF btp1 = 0 THEN Ret0(b, m)
          ELSE
          LET tocopy == LinearPart(b.size, r1, btp1)
              o1 == MemRead(m, r1, tocopy)
              btp2 == btp1 - tocopy
              o2 == IF btp2 > 0 THEN o1 \o MemRead(m, 0, btp2) ELSE o1
          IN [Ret0(b, m) EXCEPT !.ret = tocopy + btp2, !.out = o2]

\* faulty variant: only the write index is set to 0
ringbuff_reset_w_mut(b, m) ==
    IF BUF_IS_VALID(b)
    THEN [b |-> [b EXCEPT !.w = 0], mem |-> m, ret |-> 0, out |-> << >>,
          evts |-> BUF_SEND_EVT(b, "RESET", 0),
          seen |-> BUF_SEND_SEEN([b EXCEPT !.w = 0]), stores |-> {"w"}]
    ELSE Ret0(b, m)

\* faulty variant: the validity check is missing
ringbuff_reset_mut(b, m) ==
    [b |-> [b EXCEPT !.w = 0, !.r = 0], mem |-> m, ret |-> 0, out |-> << >>,
     evts |-> BUF_SEND_EVT(b, "RESET", 0),
     seen |-> BUF_SEND_SEEN([b EXCEPT !.w = 0, !.r = 0]), stores |-> {"w", "r"}]

ringbuff_reset(b, m) ==
    IF BUF_IS_VALID(b)
    THEN [b |-> [b EXCEPT !.w = 0, !.r = 0], mem |-> m, ret |-> 0, out |-> << >>,
          evts |-> BUF_SEND_EVT(b, "RESET", 0),
     seen |-> BUF_SEND_SEEN([b EXCEPT !.w = 0, !.r = 0]), stores |-> {"w", "r"}]
    ELSE Ret0(b, m)

\* faulty variant: the length is not clamped to the used space
ringbuff_skip_mut(b, m, len0) ==
    IF ~BUF_IS_VALID(b) \/ len0 = 0 THEN Ret0(b, m)
    ELSE
    LET r1 == b.r + len0
        r2 == SubtractOverflow(b.size, r1)
    IN [b |-> [b EXCEPT !.r = r2], mem |-> m, ret |-> len0, out |-> << >>,
        evts |-> BUF_SEND_EVT(b, "READ", len0),
        seen |-> BUF_SEND_SEEN([b EXCEPT !.r = r2]), stores |-> {"r"}]

\* faulty variant: a length of 0 is not rejected
ringbuff_skip_len0_mut(b, m, len0) ==
    IF ~BUF_IS_VALID(b) THEN Ret0(b, m)
    ELSE
    LET full == ringbuff_get_full(b)
        len == BUF_MIN(len0, full)
        r1 == b.r + len
        r2 == SubtractOverflow(b.size, r1)
    IN [b |-> [b EXCEPT !.r = r2], mem |-> m, ret |-> len, out |-> << >>,
        evts |-> BUF_SEND_EVT(b, "READ", len),
        seen |-> BUF_SEND_SEEN([b EXCEPT !.r = r2]), stores |-> {"r"}]

ringbuff_skip(b, m, len0) ==
    IF ~BUF_IS_VALID(b) \/ len0 = 0 THEN Ret0(b, m)
    ELSE
    LET full == ringbuff_get_full(b)
        len == BUF_MIN(len0, full)
        r1 == b.r + len
        r2 == SubtractOverflow(b.size, r1)
    IN [b |-> [b EXCEPT !.r = r2], mem |-> m, ret |-> len, out |-> << >>,
        evts |-> BUF_SEND_EVT(b, "READ", len),
        seen |-> BUF_SEND_SEEN([b EXCEPT !.r = r2]), stores |-> {"r"}]

\* faulty variant: advances the read index instead of the write index
ringbuff_advance_mut(b, m, len0) ==
    IF ~BUF_IS_VALID(b) \/ len0 = 0 THEN Ret0(b, m)
    ELSE
    LET free == ringbuff_get_free(b)
        len == BUF_MIN(len0, free)
        r1 == b.r + len
        r2 == SubtractOverflow(b.size, r1)
    IN [b |-> [b EXCEPT !.r = r2], mem |-> m, ret |-> len, out |-> << >>,
        evts |-> BUF_SEND_EVT(b, "WRITE", len),
        seen |-> BUF_SEND_SEEN([b EXCEPT !.r = r2]), stores |-> {"r"}]

ringbuff_advance(b, m, len0) ==
    IF ~BUF_IS_VALID(b) \/ len0 = 0 THEN Ret0(b, m)
    ELSE
    LET free == ringbuff_get_free(b)
        len == BUF_MIN(len0, free)
        w1 == b.w + len
        w2 == SubtractOverflow(b.size, w1)
    IN [b |-> [b EXCEPT !.w = w2], mem |-> m, ret |-> len, out |-> << >>,
        evts |-> BUF_SEND_EVT(b, "WRITE", len),
        seen |-> BUF_SEND_SEEN([b EXCEPT !.w = w2]), stores |-> {"w"}]

(* ------------------ Spec: calls that run to completion ----------------- *)
\* the sequences of at most n bytes
DataOfLen(n) == UNION {[1..k -> Byte] : k \in 0..n}

Pre == [b |-> B, mem |-> mem, fifo |-> fifo, count |-> count]

NoArgs == [data |-> NULL, d |-> << >>, len |-> 0, skip_count |-> 0, fn |-> NULL]

\* the cells (pos + i) mod N, i = 0..k-1, of a region of N cells
CellAt(pos, i, N) == (pos + i) % N

\* one completed call: the structure and the region take the values the call
\* left, the ghosts follow the returned count
Complete(op, args, res) ==
    /\ buff' = res.b.buff
    /\ size' = res.b.size
    /\ w' = res.b.w
    /\ r' = res.b.r
    /\ evt_fn' = res.b.evt_fn
    /\ mem' = res.mem
    /\ last' = [op |-> op, args |-> args, ret |-> res.ret, out |-> res.out,
                evts |-> res.evts, seen |-> res.seen, stores |-> res.stores,
                pre |-> Pre]
    /\ count' = CASE op \in {"write", "advance"} -> count + res.ret
                  [] op \in {"read", "skip"} -> count - res.ret
                  [] op = "reset" /\ BUF_IS_VALID(B) -> 0
                  [] op = "init" /\ res.ret = 1 -> 0
                  [] OTHER -> count
    /\ fifo' = CASE op = "write" -> fifo \o SubSeq(args.d, 1, res.ret)
                 [] op = "advance" ->
                        fifo \o [i \in 1..res.ret |-> mem[CellAt(w, i - 1, size)]]
                 [] op \in {"read", "skip"} -> SubSeq(fifo, res.ret + 1, Len(fifo))
                 [] op = "reset" /\ BUF_IS_VALID(B) -> << >>
                 [] op = "init" /\ res.ret = 1 -> << >>
                 [] OTHER -> fifo
    /\ UNCHANGED concVars

Init_call ==
    \E buffdata \in {NULL, REGION}, sz \in 0..MaxSize :
        Complete("init", [NoArgs EXCEPT !.data = buffdata, !.len = sz],
                 ringbuff_init(B, mem, buffdata, sz))

Free_call == Complete("free", NoArgs, ringbuff_free(B, mem))

SetEvtFn_call ==
    \E fn \in {NULL, EVT_FN, EVT_FN2} :
        Complete("set_evt_fn", [NoArgs EXCEPT !.fn = fn], ringbuff_set_evt_fn(B, mem, fn))

\* a call is given a buffer of len bytes, or a null pointer and any length
Write_call ==
    \/ \E d \in DataOfLen(MaxLen) :
            Complete("write", [NoArgs EXCEPT !.data = PTR, !.d = d, !.len = Len(d)],
                     ringbuff_write(B, mem, PTR, d, Len(d)))
    \/ \E btw \in 0..MaxLen :
            Complete("write", [NoArgs EXCEPT !.len = btw],
                     ringbuff_write(B, mem, NULL, << >>, btw))

Read_call ==
    \E data \in {NULL, PTR}, btr \in 0..MaxLen :
        Complete("read", [NoArgs EXCEPT !.data = data, !.len = btr],
                 ringbuff_read(B, mem, data, btr))

Peek_call ==
    \/ \E skip_count \in 0..MaxLen, btp \in 0..MaxLen :
            Complete("peek", [NoArgs EXCEPT !.data = PTR, !.len = btp, !.skip_count = skip_count],
                     ringbuff_peek(B, mem, skip_count, PTR, btp))
    \/ \E btp \in 0..MaxLen :
            Complete("peek", [NoArgs EXCEPT !.len = btp],
                     ringbuff_peek(B, mem, 0, NULL, btp))

Skip_call ==
    \E len \in 0..MaxLen :
        Complete("skip", [NoArgs EXCEPT !.len = len], ringbuff_skip(B, mem, len))

Advance_call ==
    \E len \in 0..MaxLen :
        Complete("advance", [NoArgs EXCEPT !.len = len], ringbuff_advance(B, mem, len))

Reset_call == Complete("reset", NoArgs, ringbuff_reset(B, mem))

\* a query: returns a value, stores nothing, hands nothing to the callback
Query(b, m, v) == [Ret0(b, m) EXCEPT !.ret = v]

IsReady_call ==
    Complete("is_ready", NoArgs, Query(B, mem, IF ringbuff_is_ready(B) THEN 1 ELSE 0))

GetFree_call == Complete("get_free", NoArgs, Query(B, mem, ringbuff_get_free(B)))

GetFull_call == Complete("get_full", NoArgs, Query(B, mem, ringbuff_get_full(B)))

LinearReadAddress_call ==
    Complete("linear_read_address", NoArgs,
             Query(B, mem, ringbuff_get_linear_block_read_address(B)))

LinearReadLength_call ==
    Complete("linear_read_length", NoArgs,
             Query(B, mem, ringbuff_get_linear_block_read_length(B)))

LinearWriteAddress_call ==
    Complete("linear_write_address", NoArgs,
             Query(B, mem, ringbuff_get_linear_block_write_address(B)))

LinearWriteLength_call ==
    Complete("linear_write_length", NoArgs,
             Query(B, mem, ringbuff_get_linear_block_write_length(B)))

\* the locals of a side that is in no call
LIdle == [op |-> "none", d |-> << >>, n |-> 0, tocopy |-> 0, i |-> 0, ret |-> 0, addr |-> 0]

\* the structure and the region are zeroed memory before the first ringbuff_init
Init ==
    /\ buff = NULL
    /\ size = 0
    /\ w = 0
    /\ r = 0
    /\ evt_fn = NULL
    /\ mem = [c \in Cells |-> 0]
    /\ fifo = << >>
    /\ count = 0
    /\ last = [op |-> "none", args |-> NoArgs, ret |-> 0, out |-> << >>,
               evts |-> << >>, seen |-> << >>, stores |-> {}, pre |-> Pre]
    /\ pcP = "idle"
    /\ pcC = "idle"
    /\ lp = LIdle
    /\ lc = LIdle
    /\ written = << >>
    /\ readout = << >>
    /\ released = 0
    /\ published = 0

Next ==
    \/ Init_call
    \/ Free_call
    \/ SetEvtFn_call
    \/ Write_call
    \/ Read_call
    \/ Peek_call
    \/ Skip_call
    \/ Advance_call
    \/ Reset_call
    \/ IsReady_call
    \/ GetFree_call
    \/ GetFull_call
    \/ LinearReadAddress_call
    \/ LinearReadLength_call
    \/ LinearWriteAddress_call
    \/ LinearWriteLength_call

Spec == Init /\ [][Next]_vars

(* ======= SpecWR / SpecConc: one producer and one consumer, step by step ======= *)
(* A step is one load of the other side's index (together with the loads of    *)
(* the caller's own index, which nobody else stores to), one store to an       *)
(* index, or the copy of one byte.                                              *)

seqVars == <<fifo, count, last>>
fixedVars == <<buff, size, evt_fn>>

\* byte c of the region, as a copy-out sees it
Cell(c) == IF c \in DOMAIN mem THEN mem[c] ELSE 0

\* memory with byte c replaced (a store outside the region is not modelled)
Poke(c, v) == IF c \in DOMAIN mem THEN [mem EXCEPT ![c] = v] ELSE mem

\* the producer offers the stream 1, 2, 3, ...: the next n bytes after those accepted
NextData(n) == [i \in 1..n |-> Len(written) + i]

(* ----------------------------- ringbuff_write --------------------------- *)
P_write_call ==
    /\ pcP = "idle"
    /\ \E btw \in 1..MaxLen :
        /\ published + btw <= MaxTotal
        /\ lp' = [LIdle EXCEPT !.op = "write", !.d = NextData(btw), !.n = btw]
    /\ pcP' = "w_free"
    /\ UNCHANGED <<w, r, mem, pcC, lc, written, readout, released, published, seqVars, fixedVars>>

\* free = ringbuff_get_free(buff); btw = BUF_MIN(free, btw); tocopy = BUF_MIN(size - w, btw)
P_write_free ==
    /\ pcP = "w_free"
    /\ LET free == ringbuff_get_free(B)
           btw == BUF_MIN(free, lp.n)
       IN IF btw = 0
          THEN /\ pcP' = "idle"
               /\ lp' = LIdle
               /\ UNCHANGED written
          ELSE /\ pcP' = "w_copy1"
               /\ lp' = [lp EXCEPT !.n = btw, !.tocopy = LinearPart(size, w, btw), !.i = 0]
               /\ written' = written \o SubSeq(lp.d, 1, btw)
    /\ UNCHANGED <<w, r, mem, pcC, lc, readout, released, published, seqVars, fixedVars>>

\* one byte of BUF_MEMCPY(&buff->buff[buff->w], d, tocopy)
P_write_copy1 ==
    /\ pcP = "w_copy1"
    /\ mem' = Poke(w + lp.i, lp.d[lp.i + 1])
    /\ lp' = [lp EXCEPT !.i = lp.i + 1]
    /\ pcP' = IF lp.i + 1 >= lp.tocopy THEN "w_store1" ELSE "w_copy1"
    /\ UNCHANGED <<w, r, pcC, lc, written, readout, released, published, seqVars, fixedVars>>

\* buff->w += tocopy; btw -= tocopy
P_write_store1 ==
    /\ pcP = "w_store1"
    /\ w' = w + lp.tocopy
    /\ published' = published + lp.tocopy
    /\ lp' = [lp EXCEPT !.n = lp.n - lp.tocopy, !.i = 0]
    /\ pcP' = IF lp.n - lp.tocopy > 0 THEN "w_copy2" ELSE "w_chk"
    /\ UNCHANGED <<r, mem, pcC, lc, written, readout, released, seqVars, fixedVars>>

\* one byte of BUF_MEMCPY(buff->buff, &d[tocopy], btw)
P_write_copy2 ==
    /\ pcP = "w_copy2"
    /\ mem' = Poke(lp.i, lp.d[lp.tocopy + lp.i + 1])
    /\ lp' = [lp EXCEPT !.i = lp.i + 1]
    /\ pcP' = IF lp.i + 1 >= lp.n THEN "w_store2" ELSE "w_copy2"
    /\ UNCHANGED <<w, r, pcC, lc, written, readout, released, published, seqVars, fixedVars>>

\* buff->w = btw
P_write_store2 ==
    /\ pcP = "w_store2"
    /\ w' = lp.n
    /\ published' = published + lp.n
    /\ pcP' = "w_chk"
    /\ UNCHANGED <<r, mem, lp, pcC, lc, written, readout, released, seqVars, fixedVars>>

\* if (buff->w >= buff->size) buff->w = 0; return
P_write_chk ==
    /\ pcP = "w_chk"
    /\ w' = CheckEnd(size, w)
    /\ pcP' = "idle"
    /\ lp' = LIdle
    /\ UNCHANGED <<r, mem, pcC, lc, written, readout, released, published, seqVars, fixedVars>>

(* ----------------------------- ringbuff_read ---------------------------- *)
C_read_call ==
    /\ pcC = "idle"
    /\ released <= MaxTotal
    /\ \E btr \in 1..MaxLen :
        lc' = [LIdle EXCEPT !.op = "read", !.n = btr]
    /\ pcC' = "r_full"
    /\ UNCHANGED <<w, r, mem, pcP, lp, written, readout, released, published, seqVars, fixedVars>>

\* full = ringbuff_get_full(buff); btr = BUF_MIN(full, btr); tocopy = BUF_MIN(size - r, btr)
C_read_full ==
    /\ pcC = "r_full"
    /\ LET full == ringbuff_get_full(B)
           btr == BUF_MIN(full, lc.n)
       IN IF btr = 0
          THEN /\ pcC' = "idle"
               /\ lc' = LIdle
          ELSE /\ pcC' = "r_copy1"
               /\ lc' = [lc EXCEPT !.n = btr, !.tocopy = LinearPart(size, r, btr), !.i = 0]
    /\ UNCHANGED <<w, r, mem, pcP, lp, written, readout, released, published, seqVars, fixedVars>>

\* one byte of BUF_MEMCPY(d, &buff->buff[buff->r], tocopy)
C_read_copy1 ==
    /\ pcC = "r_copy1"
    /\ readout' = Append(readout, Cell(r + lc.i))
    /\ lc' = [lc EXCEPT !.i = lc.i + 1]
    /\ pcC' = IF lc.i + 1 >= lc.tocopy THEN "r_store1" ELSE "r_copy1"
    /\ UNCHANGED <<w, r, mem, pcP, lp, written, released, published, seqVars, fixedVars>>

\* buff->r += tocopy; btr -= tocopy
C_read_store1 ==
    /\ pcC = "r_store1"
    /\ r' = r + lc.tocopy
    /\ released' = released + lc.tocopy
    /\ UNCHANGED published
    /\ lc' = [lc EXCEPT !.n = lc.n - lc.tocopy, !.i = 0]
    /\ pcC' = IF lc.n - lc.tocopy > 0 THEN "r_copy2" ELSE "r_chk"
    /\ UNCHANGED <<w, mem, pcP, lp, written, readout, seqVars, fixedVars>>

\* one byte of BUF_MEMCPY(&d[tocopy], buff->buff, btr)
C_read_copy2 ==
    /\ pcC = "r_copy2"
    /\ readout' = Append(readout, Cell(lc.i))
    /\ lc' = [lc EXCEPT !.i = lc.i + 1]
    /\ pcC' = IF lc.i + 1 >= lc.n THEN "r_store2" ELSE "r_copy2"
    /\ UNCHANGED <<w, r, mem, pcP, lp, written, released, published, seqVars, fixedVars>>

\* buff->r = btr
C_read_store2 ==
    /\ pcC = "r_store2"
    /\ r' = lc.n
    /\ released' = released + lc.n
    /\ UNCHANGED published
    /\ pcC' = "r_chk"
    /\ UNCHANGED <<w, mem, lc, pcP, lp, written, readout, seqVars, fixedVars>>

\* if (buff->r >= buff->size) buff->r = 0; return
C_read_chk ==
    /\ pcC = "r_chk"
    /\ r' = CheckEnd(size, r)
    /\ pcC' = "idle"
    /\ lc' = LIdle
    /\ UNCHANGED <<w, mem, pcP, lp, written, readout, released, published, seqVars, fixedVars>>

\* ringbuff_init has run on one core before the other core starts (CM7 main)
InitConc ==
    /\ buff = REGION
    /\ size \in 1..MaxSize
    /\ w = 0
    /\ r = 0
    /\ evt_fn = NULL
    /\ mem = [c \in Cells |-> 0]
    /\ fifo = << >>
    /\ count = 0
    /\ last = [op |-> "init", args |-> [NoArgs EXCEPT !.data = REGION, !.len = size],
               ret |-> 1, out |-> << >>, evts |-> << >>, seen |-> << >>,
               stores |-> {"buff", "size", "w", "r", "evt_fn"},
               pre |-> [b |-> [buff |-> NULL, size |-> 0, w |-> 0, r |-> 0, evt_fn |-> NULL],
                        mem |-> [c \in Cells |-> 0], fifo |-> << >>, count |-> 0]]
    /\ pcP = "idle"
    /\ pcC = "idle"
    /\ lp = LIdle
    /\ lc = LIdle
    /\ written = << >>
    /\ readout = << >>
    /\ released = 0
    /\ published = 0

NextWR ==
    \/ P_write_call
    \/ P_write_free
    \/ P_write_copy1
    \/ P_write_store1
    \/ P_write_copy2
    \/ P_write_store2
    \/ P_write_chk
    \/ C_read_call
    \/ C_read_full
    \/ C_read_copy1
    \/ C_read_store1
    \/ C_read_copy2
    \/ C_read_store2
    \/ C_read_chk

SpecWR == InitConc /\ [][NextWR]_vars

(* ---------------------------- ringbuff_advance -------------------------- *)
P_advance_call ==
    /\ pcP = "idle"
    /\ \E len \in 1..MaxLen :
        /\ published + len <= MaxTotal
        /\ lp' = [LIdle EXCEPT !.op = "advance", !.n = len]
    /\ pcP' = "a_free"
    /\ UNCHANGED <<w, r, mem, pcC, lc, written, readout, released, published, seqVars, fixedVars>>

\* free = ringbuff_get_free(buff); len = BUF_MIN(len, free)
P_advance_free ==
    /\ pcP = "a_free"
    /\ lp' = [lp EXCEPT !.n = BUF_MIN(lp.n, ringbuff_get_free(B))]
    /\ pcP' = "a_store"
    /\ UNCHANGED <<w, r, mem, pcC, lc, written, readout, released, published, seqVars, fixedVars>>

\* buff->w += len
P_advance_store ==
    /\ pcP = "a_store"
    /\ w' = w + lp.n
    /\ published' = published + lp.n
    /\ pcP' = "a_chk"
    /\ UNCHANGED <<r, mem, lp, pcC, lc, written, readout, released, seqVars, fixedVars>>

\* if (buff->w >= buff->size) buff->w -= buff->size; return len
P_advance_chk ==
    /\ pcP = "a_chk"
    /\ w' = SubtractOverflow(size, w)
    /\ pcP' = "idle"
    /\ lp' = LIdle
    /\ UNCHANGED <<r, mem, pcC, lc, written, readout, released, published, seqVars, fixedVars>>

(* ------------------------------ ringbuff_skip --------------------------- *)
C_skip_call ==
    /\ pcC = "idle"
    /\ released <= MaxTotal
    /\ \E len \in 1..MaxLen :
        lc' = [LIdle EXCEPT !.op = "skip", !.n = len]
    /\ pcC' = "s_full"
    /\ UNCHANGED <<w, r, mem, pcP, lp, written, readout, released, published, seqVars, fixedVars>>

\* full = ringbuff_get_full(buff); len = BUF_MIN(len, full)
C_skip_full ==
    /\ pcC = "s_full"
    /\ lc' = [lc EXCEPT !.n = BUF_MIN(lc.n, ringbuff_get_full(B))]
    /\ pcC' = "s_store"
    /\ UNCHANGED <<w, r, mem, pcP, lp, written, readout, released, published, seqVars, fixedVars>>

\* buff->r += len
C_skip_store ==
    /\ pcC = "s_store"
    /\ r' = r + lc.n
    /\ released' = released + lc.n
    /\ UNCHANGED published
    /\ pcC' = "s_chk"
    /\ UNCHANGED <<w, mem, lc, pcP, lp, written, readout, seqVars, fixedVars>>

\* if (buff->r >= buff->size) buff->r -= buff->size; return len
C_skip_chk ==
    /\ pcC = "s_chk"
    /\ r' = SubtractOverflow(size, r)
    /\ pcC' = "idle"
    /\ lc' = LIdle
    /\ UNCHANGED <<w, mem, pcP, lp, written, readout, released, published, seqVars, fixedVars>>

(* ------------------- the linear block length queries -------------------- *)
\* the producer asks ringbuff_get_linear_block_write_length and holds the result
P_linear_write_length ==
    /\ pcP = "idle"
    /\ lp' = [LIdle EXCEPT !.op = "linear_write_length",
                           !.ret = ringbuff_get_linear_block_write_length(B)]
    /\ pcP' = "lw_ret"
    /\ UNCHANGED <<w, r, mem, pcC, lc, written, readout, released, published, seqVars, fixedVars>>

P_linear_write_done ==
    /\ pcP = "lw_ret"
    /\ pcP' = "idle"
    /\ lp' = LIdle
    /\ UNCHANGED <<w, r, mem, pcC, lc, written, readout, released, published, seqVars, fixedVars>>

\* the consumer asks ringbuff_get_linear_block_read_length and holds the result
C_linear_read_length ==
    /\ pcC = "idle"
    /\ lc' = [LIdle EXCEPT !.op = "linear_read_length",
                           !.ret = ringbuff_get_linear_block_read_length(B)]
    /\ pcC' = "lr_ret"
    /\ UNCHANGED <<w, r, mem, pcP, lp, written, readout, released, published, seqVars, fixedVars>>

C_linear_read_done ==
    /\ pcC = "lr_ret"
    /\ pcC' = "idle"
    /\ lc' = LIdle
    /\ UNCHANGED <<w, r, mem, pcP, lp, written, readout, released, published, seqVars, fixedVars>>

NextConc ==
    \/ P_write_call
    \/ P_write_free
    \/ P_write_copy1
    \/ P_write_store1
    \/ P_write_copy2
    \/ P_write_store2
    \/ P_write_chk
    \/ C_read_call
    \/ C_read_full
    \/ C_read_copy1
    \/ C_read_store1
    \/ C_read_copy2
    \/ C_read_store2
    \/ C_read_chk
    \/ P_advance_call
    \/ P_advance_free
    \/ P_advance_store
    \/ P_advance_chk
    \/ C_skip_call
    \/ C_skip_full
    \/ C_skip_store
    \/ C_skip_chk
    \/ P_linear_write_length
    \/ P_linear_write_done
    \/ C_linear_read_length
    \/ C_linear_read_done

SpecConc == InitConc /\ [][NextConc]_vars

(* ====== SpecApp: CM4 writes to rb_cm4_to_cm7 while the CM7 loop drains it ====== *)
(* CM4 is the producer of SpecWR (ringbuff_write, step by step).  CM7 runs the   *)
(* loop of its main: linear read length, linear read address, HAL_UART_Transmit  *)
(* of len bytes from that address, ringbuff_skip(len).  The bytes handed to the  *)
(* UART are collected in readout.                                                *)

\* len = ringbuff_get_linear_block_read_length(rb_cm4_to_cm7); if (len > 0) ...
D_len ==
    /\ pcC = "idle"
    /\ released <= MaxTotal
    /\ LET len == ringbuff_get_linear_block_read_length(B)
       IN IF len > 0
          THEN /\ pcC' = "d_addr"
               /\ lc' = [LIdle EXCEPT !.op = "drain", !.ret = len]
          ELSE UNCHANGED <<pcC, lc>>
    /\ UNCHANGED <<w, r, mem, pcP, lp, written, readout, released, published, seqVars, fixedVars>>

\* addr = ringbuff_get_linear_block_read_address(rb_cm4_to_cm7)
D_addr ==
    /\ pcC = "d_addr"
    /\ lc' = [lc EXCEPT !.addr = ringbuff_get_linear_block_read_address(B), !.i = 0]
    /\ pcC' = "d_tx"
    /\ UNCHANGED <<w, r, mem, pcP, lp, written, readout, released, published, seqVars, fixedVars>>

\* one byte of HAL_UART_Transmit(&huart3, addr, len, 1000); after the last one
\* ringbuff_skip(rb_cm4_to_cm7, len) is entered with len > 0 on a ready buffer
D_tx ==
    /\ pcC = "d_tx"
    /\ readout' = Append(readout, Cell(lc.addr + lc.i))
    /\ IF lc.i + 1 >= lc.ret
       THEN /\ pcC' = "s_full"
            /\ lc' = [lc EXCEPT !.i = 0, !.n = lc.ret]
       ELSE /\ pcC' = "d_tx"
            /\ lc' = [lc EXCEPT !.i = lc.i + 1]
    /\ UNCHANGED <<w, r, mem, pcP, lp, written, released, published, seqVars, fixedVars>>

NextApp ==
    \/ P_write_call
    \/ P_write_free
    \/ P_write_copy1
    \/ P_write_store1
    \/ P_write_copy2
    \/ P_write_store2
    \/ P_write_chk
    \/ D_len
    \/ D_addr
    \/ D_tx
    \/ C_skip_full
    \/ C_skip_store
    \/ C_skip_chk

SpecApp == InitConc /\ [][NextApp]_vars

(* ===================== claims on completed calls (Spec) ================= *)
\* the call recorded in last was made on a ready buffer
WasReady == BUF_IS_VALID(last.pre.b)

\* the cells of the used range of structure b: (r + i) mod N, i < used_space
UsedCells(b) == {CellAt(b.r, i, b.size) : i \in 0..(ringbuff_get_full(b) - 1)}

\* C2: on a ready buffer the bytes accepted (write / advance return values) minus
\* the bytes consumed (read / skip return values) since the last init or reset
\* equal used_space(), never exceed N - 1, and w = r exactly when that number is 0.
C2_AcceptedMinusConsumed ==
    BUF_IS_VALID(B) =>
        /\ count = ringbuff_get_full(B)
        /\ count <= size - 1
        /\ (w = r) <=> (count = 0)

\* C2 witness: a write or advance has filled a buffer whose used range wraps
C2_Witness ==
    /\ BUF_IS_VALID(B)
    /\ last.op \in {"write", "advance"}
    /\ last.ret > 0
    /\ count = size - 1
    /\ w < r

\* C3: in every state reached by completed calls on a ready buffer,
\* used_space() + free_space() = N - 1.
C3_UsedPlusFree ==
    BUF_IS_VALID(B) => ringbuff_get_full(B) + ringbuff_get_free(B) = size - 1

\* C3 witness: a partly filled buffer whose write index is behind the read index
C3_Witness ==
    /\ BUF_IS_VALID(B)
    /\ last.op \in {"write", "advance", "read", "skip"}
    /\ w < r
    /\ ringbuff_get_full(B) > 0
    /\ ringbuff_get_free(B) > 0

\* C5: write(data, len) on a ready buffer with data non-null and len > 0 returns
\* k = min(len, free_space()), stores data[0..k-1] at the cells (w + i) mod N,
\* sets w to (w + k) mod N, leaves r and every byte of the used range unchanged,
\* and changes no field and no byte when k = 0.
C5_Write ==
    (last.op = "write" /\ WasReady /\ last.args.data # NULL /\ last.args.len > 0) =>
        LET pre == last.pre
            N == pre.b.size
            k == BUF_MIN(last.args.len, ringbuff_get_free(pre.b))
        IN /\ last.ret = k
           /\ \A i \in 0..(k - 1) : mem[CellAt(pre.b.w, i, N)] = last.args.d[i + 1]
           /\ w = (pre.b.w + k) % N
           /\ r = pre.b.r
           /\ \A c \in UsedCells(pre.b) : mem[c] = pre.mem[c]
           /\ (k = 0) => (B = pre.b /\ mem = pre.mem)

\* C5 witness: a write was clamped and its bytes went across the physical end
C5_Witness ==
    /\ last.op = "write" /\ WasReady /\ last.args.data # NULL
    /\ last.ret > 0
    /\ last.ret < last.args.len
    /\ last.pre.b.w + last.ret >= last.pre.b.size
    /\ ringbuff_get_full(last.pre.b) > 0

\* C6: read(out, len) on a ready buffer with out non-null and len > 0 returns
\* k = min(len, used_space()), delivers the k oldest unread bytes in the order
\* they were written (the cells (r + i) mod N), sets r to (r + k) mod N and leaves
\* w and the storage unchanged.
C6_Read ==
    (last.op = "read" /\ WasReady /\ last.args.data # NULL /\ last.args.len > 0) =>
        LET pre == last.pre
            N == pre.b.size
            k == BUF_MIN(last.args.len, ringbuff_get_full(pre.b))
        IN /\ last.ret = k
           /\ Len(last.out) = k
           /\ \A i \in 0..(k - 1) : last.out[i + 1] = pre.mem[CellAt(pre.b.r, i, N)]
           /\ last.out = SubSeq(pre.fifo, 1, k)
           /\ r = (pre.b.r + k) % N
           /\ w = pre.b.w
           /\ mem = pre.mem

\* C6 witness: a read delivered bytes from both sides of the physical end
C6_Witness ==
    /\ last.op = "read" /\ WasReady /\ last.args.data # NULL
    /\ last.ret >= 2
    /\ last.pre.b.r + last.ret > last.pre.b.size
    /\ last.out[1] # last.out[last.ret]

\* C9 as claimed: write, advance and reset store only to w and never to r;
\* read, peek and skip store only to r and never to w.
C9_OneWriterPerIndex ==
    /\ last.op \in {"write", "advance", "reset"} =>
            (last.stores \subseteq {"w"} /\ r = last.pre.b.r)
    /\ last.op \in {"read", "peek", "skip"} =>
            (last.stores \subseteq {"r"} /\ w = last.pre.b.w)

\* C9 amended: write and advance store only to w, read and skip store only to r,
\* peek stores to neither index, and reset on a ready buffer stores to both.
C9_Amended ==
    /\ last.op \in {"write", "advance"} =>
            (last.stores \subseteq {"w"} /\ r = last.pre.b.r)
    /\ last.op \in {"read", "skip"} =>
            (last.stores \subseteq {"r"} /\ w = last.pre.b.w)
    /\ last.op = "peek" => (last.stores = {} /\ r = last.pre.b.r /\ w = last.pre.b.w)
    /\ (last.op = "reset" /\ WasReady) => (last.stores = {"w", "r"} /\ w = 0 /\ r = 0)

\* C9 witness: a reset on a ready buffer moved the read index back to 0
C9_Witness ==
    /\ last.op = "reset" /\ WasReady
    /\ last.pre.b.r # 0
    /\ ringbuff_get_full(last.pre.b) > 0
    /\ r = 0

\* C10: skip(len) on a ready buffer returns k = min(len, used_space()), sets r to
\* (r + k) mod N, changes no storage byte and not w, and leaves used_space()
\* at its previous value minus k, also when len > used_space().
C10_Skip ==
    (last.op = "skip" /\ WasReady) =>
        LET pre == last.pre
            N == pre.b.size
            k == BUF_MIN(last.args.len, ringbuff_get_full(pre.b))
        IN /\ last.ret = k
           /\ r = (pre.b.r + k) % N
           /\ mem = pre.mem
           /\ w = pre.b.w
           /\ ringbuff_get_full(B) = ringbuff_get_full(pre.b) - k
           /\ count = pre.count - k

\* C10 witness: a skip asked for more than was used and stopped at the write index
C10_Witness ==
    /\ last.op = "skip" /\ WasReady
    /\ ringbuff_get_full(last.pre.b) > 0
    /\ last.args.len > ringbuff_get_full(last.pre.b)
    /\ last.pre.b.r + last.ret >= last.pre.b.size
    /\ r = w

\* C11: advance(len) on a ready buffer returns k = min(len, free_space()), sets w
\* to (w + k) mod N, changes no storage byte and not r, never moves w onto or past
\* r, and leaves used_space() at its previous value plus k, which is at most N - 1.
C11_Advance ==
    (last.op = "advance" /\ WasReady) =>
        LET pre == last.pre
            N == pre.b.size
            k == BUF_MIN(last.args.len, ringbuff_get_free(pre.b))
        IN /\ last.ret = k
           /\ w = (pre.b.w + k) % N
           /\ mem = pre.mem
           /\ r = pre.b.r
           /\ (k > 0) => w # r
           /\ \A i \in 1..k : CellAt(pre.b.w, i, N) # r
           /\ ringbuff_get_full(B) = ringbuff_get_full(pre.b) + k
           /\ ringbuff_get_full(B) <= N - 1
           /\ count = pre.count + k

\* C11 witness: an advance asked for more than was free, went across the
\* physical end and stopped one cell behind the read index
C11_Witness ==
    /\ last.op = "advance" /\ WasReady
    /\ last.ret > 0
    /\ last.ret < last.args.len
    /\ last.pre.b.w + last.ret >= last.pre.b.size
    /\ ringbuff_get_full(last.pre.b) > 0
    /\ ringbuff_get_full(B) = size - 1

\* the length the claim C12 gives for the linear write block of structure b
C12_Expected(b) ==
    CASE b.w >= b.r /\ b.r = 0 -> b.size - b.w - 1
      [] b.w >= b.r /\ b.r > 0 -> b.size - b.w
      [] b.w < b.r -> b.r - b.w - 1

\* C12: for a ready buffer in every state reached by completed calls,
\* linear_write_length() is N - w - 1 when w >= r and r = 0, N - w when w >= r and
\* r > 0, and r - w - 1 when w < r; it never exceeds free_space(); and an advance
\* by the full returned length is accepted whole and never makes w equal to r.
C12_LinearWriteLength ==
    /\ BUF_IS_VALID(B) =>
            LET L == ringbuff_get_linear_block_write_length(B)
                adv == ringbuff_advance(B, mem, L)
            IN /\ L = C12_Expected(B)
               /\ 0 <= L /\ L <= ringbuff_get_free(B)
               /\ w + L <= size
               /\ adv.ret = L
               /\ (adv.b.w = r) => (L = 0 /\ w = r)
    /\ (last.op = "linear_write_length" /\ WasReady) =>
            last.ret = C12_Expected(last.pre.b)
    /\ (last.op = "advance" /\ WasReady /\ last.args.len > 0
            /\ last.args.len = ringbuff_get_linear_block_write_length(last.pre.b)) =>
            (last.ret = last.args.len /\ w # r)

\* C12 witness: with the read index at 0 and data buffered, an advance by the
\* full linear write length filled the buffer up to the last cell
C12_Witness ==
    /\ last.op = "advance" /\ WasReady
    /\ last.pre.b.r = 0
    /\ last.pre.b.w > 0
    /\ last.args.len > 0
    /\ last.args.len = ringbuff_get_linear_block_write_length(last.pre.b)
    /\ w = size - 1
    /\ ringbuff_get_free(B) = 0
    /\ ringbuff_get_linear_block_write_length(B) = 0

\* the length the claim C13 gives for the linear read block of structure b
C13_Expected(b) ==
    CASE b.w > b.r -> b.w - b.r
      [] b.w < b.r -> b.size - b.r
      [] b.w = b.r -> 0

\* C13: for a ready buffer in every state reached by completed calls,
\* linear_read_length() is min(used_space(), N - r), that is w - r when w > r,
\* N - r when w < r and 0 when w = r, and linear_read_address() is the address of
\* storage cell r.
C13_LinearRead ==
    /\ BUF_IS_VALID(B) =>
            LET L == ringbuff_get_linear_block_read_length(B)
            IN /\ L = C13_Expected(B)
               /\ L = BUF_MIN(ringbuff_get_full(B), size - r)
               /\ ringbuff_get_linear_block_read_address(B) = r
               /\ \A i \in 1..L : fifo[i] = mem[r + i - 1]
    /\ (last.op = "linear_read_length" /\ WasReady) =>
            /\ last.ret = C13_Expected(last.pre.b)
            /\ last.ret = BUF_MIN(ringbuff_get_full(last.pre.b), last.pre.b.size - last.pre.b.r)
    /\ (last.op = "linear_read_address" /\ WasReady) => last.ret = last.pre.b.r

\* C13 witness: the length was asked while the used range wrapped, so that the
\* linear block ended at the physical end and was shorter than the used space
C13_Witness ==
    /\ last.op = "linear_read_length" /\ WasReady
    /\ 0 < w /\ w < r
    /\ last.ret = size - r
    /\ last.ret < ringbuff_get_full(B)

\* a peek on a ready buffer left the structure, the region and both space
\* counts as they were and handed nothing to the callback
C14_Frame ==
    (last.op = "peek" /\ WasReady) =>
        /\ B = last.pre.b
        /\ mem = last.pre.mem
        /\ ringbuff_get_full(B) = ringbuff_get_full(last.pre.b)
        /\ ringbuff_get_free(B) = ringbuff_get_free(last.pre.b)
        /\ fifo = last.pre.fifo
        /\ last.stores = {}
        /\ last.evts = << >>

\* a read that directly follows a peek with skip_count 0 and the same length
\* returns what the peek returned
C14_ThenRead ==
    (/\ last.op = "peek" /\ WasReady
     /\ last.args.skip_count = 0
     /\ last'.op = "read"
     /\ last'.args.len = last.args.len
     /\ last'.args.data = last.args.data) =>
        (last'.ret = last.ret /\ last'.out = last.out)

\* C14: peek is observational only: for every skip_count and length on a ready
\* buffer it leaves r, w, the storage, used_space() and free_space() unchanged and
\* emits no notification, and peek(0, out1, len) followed immediately by
\* read(out2, len) returns the same count and the same bytes in both.
C14_Peek == [](C14_Frame) /\ [][C14_ThenRead]_vars

\* C14 witness: with a callback installed, a peek with skip_count 0 returned two
\* different bytes from both sides of the physical end
C14_Witness ==
    /\ last.op = "peek" /\ WasReady
    /\ last.args.skip_count = 0
    /\ last.args.data # NULL
    /\ evt_fn # NULL
    /\ last.ret >= 2
    /\ r + last.ret > size
    /\ last.out[1] # last.out[2]

\* C15: peek(skip_count, out, len) on a ready buffer with out non-null returns 0
\* when skip_count >= used_space(); otherwise it returns
\* k = min(len, used_space() - skip_count) and out[0..k-1] are the bytes of the
\* cells (r + skip_count + i) mod N, the bytes that skip(skip_count) followed by
\* read(k) would return.
C15_PeekBytes ==
    (last.op = "peek" /\ WasReady /\ last.args.data # NULL) =>
        LET pre == last.pre
            N == pre.b.size
            s == last.args.skip_count
            used == ringbuff_get_full(pre.b)
            k == BUF_MIN(last.args.len, used - s)
            sk == ringbuff_skip(pre.b, pre.mem, s)
            rd == ringbuff_read(sk.b, sk.mem, PTR, k)
        IN IF s >= used
           THEN last.ret = 0 /\ last.out = << >>
           ELSE /\ last.ret = k
                /\ Len(last.out) = k
                /\ \A i \in 0..(k - 1) : last.out[i + 1] = pre.mem[CellAt(pre.b.r, s + i, N)]
                /\ last.out = SubSeq(pre.fifo, s + 1, s + k)
                /\ sk.ret = s
                /\ rd.ret = k
                /\ rd.out = last.out

\* C15 witness: a peek skipped across the physical end, was clamped to what was
\* left and returned a byte that differs from the one at the read index
C15_Witness ==
    /\ last.op = "peek" /\ WasReady /\ last.args.data # NULL
    /\ last.args.skip_count >= 1
    /\ last.ret >= 1
    /\ last.ret < last.args.len
    /\ r + last.args.skip_count >= size
    /\ last.out[1] # mem[r]

\* a write of L bytes, 1 <= L <= free_space(), on a ready buffer is directly
\* followed by a read of L bytes
C16_WriteThenRead ==
    /\ last.op = "write" /\ WasReady
    /\ last.args.data # NULL
    /\ last.args.len >= 1
    /\ last.args.len <= ringbuff_get_free(last.pre.b)
    /\ last'.op = "read"
    /\ last'.args.data # NULL
    /\ last'.args.len = last.args.len

\* C16 as claimed: in any reachable state of a ready buffer, whatever it holds,
\* a write of L bytes with 1 <= L <= free_space() followed immediately by a read
\* of L bytes returns L and yields exactly the bytes just written.
C16_RoundTrip ==
    [][C16_WriteThenRead =>
            (last'.ret = last.args.len /\ last'.out = last.args.d)]_vars

\* C16 amended: such a read returns L and the L oldest buffered bytes; they are
\* the bytes just written when the buffer was empty before the write.
C16_Amended ==
    [][C16_WriteThenRead =>
            /\ last'.ret = last.args.len
            /\ last'.out = SubSeq(last.pre.fifo \o last.args.d, 1, last.args.len)
            /\ (ringbuff_get_full(last.pre.b) = 0) => last'.out = last.args.d]_vars

\* C16 witness: two different bytes were written across the physical end into
\* an empty buffer that held other bytes in those cells; a read may follow
C16_Witness ==
    /\ last.op = "write" /\ WasReady /\ last.args.data # NULL
    /\ ringbuff_get_full(last.pre.b) = 0
    /\ last.ret = 2 /\ last.args.len = 2
    /\ last.pre.b.w = size - 1
    /\ last.args.d[1] # last.args.d[2]
    /\ last.pre.mem[size - 1] # last.args.d[1]
    /\ last.pre.mem[0] # last.args.d[2]

\* the entry points that return an address
AddressOps == {"linear_read_address", "linear_write_address"}

\* C17: on a buffer that is not ready (zeroed and never initialized, or
\* detached) every entry point other than init returns 0 or a null address,
\* changes no field and no storage byte and emits no notification; the buffer
\* becomes ready only by a successful init.
C17_NotReady ==
    /\ (last.op \notin {"none", "init"} /\ ~WasReady) =>
            /\ IF last.op \in AddressOps THEN last.ret = NULL ELSE last.ret = 0
            /\ last.out = << >>
            /\ B = last.pre.b
            /\ mem = last.pre.mem
            /\ last.stores = {}
            /\ last.evts = << >>
            /\ ~BUF_IS_VALID(B)
    /\ (~WasReady /\ BUF_IS_VALID(B)) => (last.op = "init" /\ last.ret = 1)

\* C17 witness: a write of two bytes was asked of a detached buffer that still
\* has a callback, a capacity and unread bytes recorded in its indices
C17_Witness ==
    /\ last.op = "write" /\ ~WasReady
    /\ last.args.data # NULL /\ last.args.len = 2
    /\ size > 0
    /\ evt_fn # NULL
    /\ w # r
    /\ ringbuff_get_free([B EXCEPT !.buff = REGION]) >= 1

\* the last call was init with an absent region or capacity 0
InitRejected == last.op = "init" /\ (last.args.data = NULL \/ last.args.len = 0)

\* C18 as claimed: init with an absent region or capacity 0 returns not-ok and
\* the buffer is not ready afterwards, whatever its state before the call
\* (never initialized, detached, or ready).
C18_InitFailsNotReady ==
    InitRejected => (last.ret = 0 /\ ~BUF_IS_VALID(B))

\* C18 amended: such an init returns not-ok and changes nothing: a buffer that
\* was not ready stays not ready, a ready buffer stays ready with its region,
\* capacity, indices, callback and content.
C18_Amended ==
    InitRejected =>
        /\ last.ret = 0
        /\ B = last.pre.b
        /\ mem = last.pre.mem
        /\ fifo = last.pre.fifo
        /\ last.stores = {}
        /\ last.evts = << >>
        /\ BUF_IS_VALID(B) <=> WasReady

\* C18 witness: init with capacity 0 was rejected on a ready buffer that holds
\* unread bytes, and the buffer is still ready
C18_Witness ==
    /\ InitRejected
    /\ last.args.data # NULL
    /\ WasReady
    /\ BUF_IS_VALID(B)
    /\ ringbuff_get_full(B) > 0
    /\ evt_fn # NULL

\* C19: init(region, N) with a region and N >= 1 returns success and, whatever
\* the buffer was and held before, leaves it ready with capacity N and
\* w = r = 0: used_space() is 0, free_space() is N - 1 and no read or peek
\* returns a byte buffered before.
C19_InitOk ==
    (last.op = "init" /\ last.args.data # NULL /\ last.args.len >= 1) =>
        /\ last.ret = 1
        /\ ringbuff_is_ready(B)
        /\ buff = last.args.data
        /\ size = last.args.len
        /\ w = 0 /\ r = 0
        /\ ringbuff_get_full(B) = 0
        /\ ringbuff_get_free(B) = last.args.len - 1
        /\ ringbuff_get_linear_block_read_length(B) = 0
        /\ fifo = << >> /\ count = 0
        /\ \A n \in 1..MaxLen :
                /\ ringbuff_read(B, mem, PTR, n).ret = 0
                /\ ringbuff_skip(B, mem, n).ret = 0
                /\ \A s \in 0..MaxLen : ringbuff_peek(B, mem, s, PTR, n).ret = 0

\* C19 witness: a ready buffer with unread bytes, a callback and both indices
\* away from 0 was initialized again with another capacity
C19_Witness ==
    /\ last.op = "init" /\ last.ret = 1
    /\ WasReady
    /\ ringbuff_get_full(last.pre.b) > 0
    /\ last.pre.b.r > 0 /\ last.pre.b.w > 0
    /\ last.pre.b.evt_fn # NULL
    /\ last.pre.b.size # size
    /\ size >= 2

\* what reset does to the indices and leaves alone, on a ready buffer
C20_Effect ==
    /\ w = 0 /\ r = 0
    /\ ringbuff_get_full(B) = 0
    /\ ringbuff_get_free(B) = size - 1
    /\ size = last.pre.b.size
    /\ buff = last.pre.b.buff
    /\ evt_fn = last.pre.b.evt_fn
    /\ ringbuff_is_ready(B)

\* C20 as claimed: reset() on a ready buffer in any reachable state sets
\* w = r = 0, so that used_space() is 0 and free_space() is N - 1, leaves the
\* capacity, the region binding and the notify hook unchanged, and emits
\* exactly one RESET notification with count 0.
C20_Reset ==
    (last.op = "reset" /\ WasReady) =>
        (C20_Effect /\ last.evts = << <<"RESET", 0>> >>)

\* C20 amended: the same effect on the structure; one RESET notification with
\* count 0 when a notify hook is installed, and none when there is no hook.
C20_Amended ==
    (last.op = "reset" /\ WasReady) =>
        /\ C20_Effect
        /\ mem = last.pre.mem
        /\ (last.pre.b.evt_fn # NULL) => last.evts = << <<"RESET", 0>> >>
        /\ (last.pre.b.evt_fn = NULL) => last.evts = << >>

\* C20 witness: a reset with a hook installed discarded the unread bytes of a
\* buffer whose used range wrapped
C20_Witness ==
    /\ last.op = "reset" /\ WasReady
    /\ last.pre.b.evt_fn # NULL
    /\ last.pre.b.w < last.pre.b.r
    /\ ringbuff_get_full(last.pre.b) = last.pre.b.size - 1
    /\ last.evts = << <<"RESET", 0>> >>
    /\ fifo = << >>

\* C21: detach (ringbuff_free) on a ready buffer makes is_ready() false by
\* clearing only the region reference: the capacity, w, r and the notify hook
\* keep their values and no notification is emitted.
C21_Detach ==
    (last.op = "free" /\ WasReady) =>
        /\ ~ringbuff_is_ready(B)
        /\ buff = NULL
        /\ B = [last.pre.b EXCEPT !.buff = NULL]
        /\ size = last.pre.b.size
        /\ w = last.pre.b.w
        /\ r = last.pre.b.r
        /\ evt_fn = last.pre.b.evt_fn
        /\ mem = last.pre.mem
        /\ last.stores = {"buff"}
        /\ last.evts = << >>

\* C21 witness: a buffer with a hook installed and unread bytes around the
\* physical end was detached
C21_Witness ==
    /\ last.op = "free" /\ WasReady
    /\ evt_fn # NULL
    /\ 0 < w /\ w < r
    /\ size >= 2
    /\ buff = NULL

\* the entry points that only report
QueryOps == {"is_ready", "get_free", "get_full", "linear_read_address",
             "linear_read_length", "linear_write_address", "linear_write_length"}

\* the last call invoked the hook once, with the given kind and the returned
\* count, after it had stored the new value of its index
InvokedOnce(kind, index) ==
    /\ last.evts = << <<kind, last.ret>> >>
    /\ Len(last.seen) = 1
    /\ last.seen[1] = B
    /\ last.seen[1][index] # last.pre.b[index]
    /\ last.seen[1].evt_fn = last.pre.b.evt_fn

\* what completed calls hand to the hook
C22_Events ==
    /\ (WasReady /\ last.pre.b.evt_fn # NULL /\ last.ret > 0
            /\ last.op \in {"write", "advance"}) => InvokedOnce("WRITE", "w")
    /\ (WasReady /\ last.pre.b.evt_fn # NULL /\ last.ret > 0
            /\ last.op \in {"read", "skip"}) => InvokedOnce("READ", "r")
    /\ (last.op \in QueryOps \cup {"peek"}) => (last.evts = << >> /\ last.seen = << >>)
    /\ (last.pre.b.evt_fn = NULL) => (last.evts = << >> /\ last.seen = << >>)

\* the call that directly follows set_notify works with the hook just set
C22_NextUsesHook ==
    (/\ last.op = "set_evt_fn" /\ WasReady
     /\ last'.op \in {"write", "advance", "read", "skip"}
     /\ last'.ret > 0) =>
        IF last.args.fn = NULL
        THEN last'.evts = << >>
        ELSE /\ Len(last'.evts) = 1
             /\ Len(last'.seen) = 1
             /\ last'.seen[1].evt_fn = last.args.fn

\* C22: with a hook installed, every write and advance that transfers k > 0
\* bytes invokes the hook exactly once with kind WRITE and count k, the returned
\* value, and every read and skip that transfers k > 0 bytes exactly once with
\* kind READ and count k, each time after the index update; peek and the
\* queries never invoke it; the hook set by set_notify is the one the very next
\* call uses; with no hook no call invokes anything.
C22_Notify == [](C22_Events) /\ [][C22_NextUsesHook]_vars

\* C22 witness: with the second hook installed, a write of two bytes across the
\* physical end invoked it once with WRITE and count 2 and the new write index
C22_Witness ==
    /\ last.op = "write" /\ WasReady
    /\ last.pre.b.evt_fn = EVT_FN2
    /\ last.ret = 2
    /\ last.pre.b.w = size - 1
    /\ last.evts = << <<"WRITE", 2>> >>
    /\ last.seen[1].w = 1

\* the last call was given a null data pointer or a length of 0
InvalidArgs ==
    \/ last.op \in {"write", "read", "peek"} /\ (last.args.data = NULL \/ last.args.len = 0)
    \/ last.op \in {"skip", "advance"} /\ last.args.len = 0

\* the last call left the structure and the region as they were
ChangedNothing == B = last.pre.b /\ mem = last.pre.mem

\* the cells a write of k bytes at the write index of the state before fills
WrittenCells(k) == {CellAt(last.pre.b.w, i, last.pre.b.size) : i \in 0..(k - 1)}

\* C23: write, read or peek on a ready buffer with a null data pointer or
\* length 0, and skip or advance with length 0, return 0, leave w, r and the
\* storage unchanged and emit no notification; and every completed call that
\* returns a count either moved its index by exactly that count, touching no
\* other field and no byte outside the cells it transferred, or changed nothing.
C23_InvalidArgs ==
    /\ (WasReady /\ InvalidArgs) =>
            /\ last.ret = 0
            /\ last.out = << >>
            /\ ChangedNothing
            /\ last.stores = {}
            /\ last.evts = << >>
    /\ (WasReady /\ last.op \in {"write", "advance"}) =>
            \/ ChangedNothing /\ last.ret = 0
            \/ /\ B = [last.pre.b EXCEPT !.w = (last.pre.b.w + last.ret) % last.pre.b.size]
               /\ \A c \in DOMAIN mem :
                    (c \notin WrittenCells(last.ret) \/ last.op = "advance")
                        => mem[c] = last.pre.mem[c]
    /\ (WasReady /\ last.op \in {"read", "skip"}) =>
            \/ ChangedNothing /\ last.ret = 0
            \/ /\ B = [last.pre.b EXCEPT !.r = (last.pre.b.r + last.ret) % last.pre.b.size]
               /\ mem = last.pre.mem
    /\ (WasReady /\ last.op = "peek") => ChangedNothing

\* C23 witness: a write of two bytes with a null data pointer was refused on a
\* ready buffer that has a hook and room for both bytes
C23_Witness ==
    /\ last.op = "write" /\ WasReady
    /\ last.args.data = NULL
    /\ last.args.len = 2
    /\ ringbuff_get_free(last.pre.b) >= 2
    /\ evt_fn # NULL
    /\ w > 0
    /\ last.ret = 0

(* ============ claims on interleaved calls (SpecWR, SpecConc) ============ *)
IsPrefix(a, b) == Len(a) <= Len(b) /\ SubSeq(b, 1, Len(a)) = a

\* the cells the producer still has to fill in the memcpy it is in
PendingWriteCells ==
    CASE pcP = "w_copy1" -> {w + j : j \in lp.i..(lp.tocopy - 1)}
      [] pcP = "w_copy2" -> lp.i..(lp.n - 1)
      [] OTHER -> {}

\* the cell the consumer copies out next
NextReadCell == IF pcC = "r_copy1" THEN r + lc.i ELSE lc.i

\* C1: with one producer in write and one consumer in read, under every
\* interleaving of index loads, index stores and byte copies, the bytes read are
\* at every moment a prefix of the bytes accepted, and when both sides are idle
\* and used_space() = 0 the bytes read are all the bytes accepted.
C1_FIFO ==
    /\ IsPrefix(readout, written)
    /\ (pcP = "idle" /\ pcC = "idle" /\ ringbuff_get_full(B) = 0) => readout = written

\* C4: for a ready buffer 0 <= w < N and 0 <= r < N hold in every state the other
\* side can observe, also between the stores one call makes to its index.
C4_IndexInRange ==
    BUF_IS_VALID(B) => (0 <= w /\ w < size /\ 0 <= r /\ r < size)

\* C7: a length L returned by linear_read_length() while the producer is inside
\* write or advance satisfies r + L <= N and covers only published bytes; a
\* length L returned by linear_write_length() while the consumer is inside read
\* or skip satisfies w + L <= N and covers only free cells.
C7_LinearBlockSafe ==
    /\ pcC = "lr_ret" =>
            (r + lc.ret <= size /\ lc.ret <= published - released)
    /\ pcP = "lw_ret" =>
            (w + lp.ret <= size /\ lp.ret <= (size - 1) - (published - released))

\* C8: every store to w follows the copy of the bytes it publishes and every
\* store to r follows the copy-out of the bytes it releases; hence the cells the
\* producer is writing are disjoint from the used range computed from the
\* current indices, and the consumer never reads a cell whose byte has not been
\* written yet.
C8_CopyBeforeIndex ==
    /\ published <= Len(written)
    /\ \A p \in (released + 1)..published : Cell((p - 1) % size) = written[p]
    /\ released <= Len(readout)
    /\ PendingWriteCells \cap UsedCells(B) = {}
    /\ pcC \in {"r_copy1", "r_copy2"} =>
            /\ Len(readout) < Len(written)
            /\ Cell(NextReadCell) = written[Len(readout) + 1]

\* C24: while CM4 is in ringbuff_write, each CM7 loop iteration that got
\* len > 0 from linear_read_length(), transmitted len bytes from
\* linear_read_address() and called ringbuff_skip(len) skips exactly len bytes,
\* so that the bytes transmitted are at every moment a prefix of the bytes
\* accepted (each accepted byte is sent once, in write order) and are all of
\* them when both cores are between calls and the buffer is empty.
C24_Drain ==
    /\ (lc.op = "drain" /\ pcC \in {"s_store", "s_chk"}) => lc.n = lc.ret
    /\ IsPrefix(readout, written)
    /\ (pcP = "idle" /\ pcC = "idle" /\ ringbuff_get_full(B) = 0) => readout = written

\* C25: for a ready buffer in every state reached by completed calls,
\* linear_write_length() is 0 if and only if free_space() is 0 and
\* linear_read_length() is 0 if and only if used_space() is 0: a zero-copy
\* producer or consumer is offered at least one cell whenever space or data
\* exists.
C25_NeverStalled ==
    /\ BUF_IS_VALID(B) =>
            /\ (ringbuff_get_linear_block_write_length(B) = 0) <=> (ringbuff_get_free(B) = 0)
            /\ (ringbuff_get_linear_block_read_length(B) = 0) <=> (ringbuff_get_full(B) = 0)
    /\ (last.op = "linear_write_length" /\ WasReady) =>
            ((last.ret = 0) <=> (ringbuff_get_free(last.pre.b) = 0))
    /\ (last.op = "linear_read_length" /\ WasReady) =>
            ((last.ret = 0) <=> (ringbuff_get_full(last.pre.b) = 0))

\* C25 witness: the write length was asked with the write index on the last
\* cell and the read index past cell 0, where one free cell remains before the
\* physical end and the call offered it, while data was there to read as well
C25_Witness ==
    /\ last.op = "linear_write_length" /\ WasReady
    /\ w = size - 1 /\ 0 < r /\ r < w
    /\ ringbuff_get_free(B) > 0
    /\ last.ret = 1
    /\ ringbuff_get_full(B) > 0
    /\ ringbuff_get_linear_block_read_length(B) > 0

====
